---- MODULE Spec2Model ----
(***************************************************************************)
(* Free Lie algebras: the Hall and Lyndon basis generators and the bracket *)
(* rewriting engine of sage/algebras/lie_algebras/free_lie_algebra.py.     *)
(*                                                                         *)
(* A basis key is a tuple: a generator of rank i is <<i>>, a bracket is    *)
(* <<left, right, grade>> with the grade stored at construction, as        *)
(* GradedLieBracket stores _grade.  A linear combination (a Python dict)   *)
(* is a function from keys to integer coefficients.                        *)
(***************************************************************************)
EXTENDS Integers, Sequences, FiniteSets, TLC

\* ---------------------------------------------------------------- bounds
MaxGens == 3        \* number of generators n ranges over 1..MaxGens
MaxHallGrade == 6   \* grades k asked of the basis generators: -1..MaxHallGrade
MaxWordLen == 5     \* is_lyndon is applied to words of length 1..MaxWordLen
MaxLetter == 3      \* ... over the letters 0..MaxLetter
MaxRewriteGrade == 6  \* rewrite is called on pairs of total grade <= this
MaxDeepGrade == 7     \* ... and on pairs (l, generator) of total grade <= this
MaxDimGrade == 10     \* grades k asked of graded_dimension: -MaxNegGrade..MaxDimGrade
MaxNegGrade == 4
MaxJacobiGrade == 5   \* the Jacobi sum is formed for triples of total grade <= this
MaxRoundTripGrade == 5  \* basis elements of grade <= this are converted and back
MaxRecursionGrade == 5  \* the recursion is followed for pairs of total grade <= this

\* n: the number of generators of the algebra; names: their names in the
\* order of declaration, a name being its place in the alphabet; op: the
\* operation whose
\* result the caller holds ("idle" when none); argK, argW, argL, argR, argZ:
\* its arguments; out: the value returned; err: the exception raised
VARIABLES n, names, op, argK, argW, argL, argR, argZ, out, err, stack, memo

\* stack: the calls of _rewrite_bracket in progress, innermost last; memo: the
\* results cached_method holds, by pair (l, r), memo.Hall for the Hall basis
\* object and memo.Lyndon for the Lyndon one
vars == <<n, names, op, argK, argW, argL, argR, argZ, out, err, stack, memo>>

\* ------------------------------------------------------------ key model
LieGenerator(i) == <<i>>

GradedLieBracket(l, r, grade) == <<l, r, grade>>

LyndonBracket(l, r, grade) == <<l, r, grade>>

IsBracket(x) == Len(x) = 3

Left(x) == x[1]

Right(x) == x[2]

\* the grade as the rewrite code reads it: _grade of a bracket, 1 otherwise
GradeOf(x) == IF IsBracket(x) THEN x[3] ELSE 1

RECURSIVE IndexWord(_)
IndexWord(x) == IF IsBracket(x) THEN IndexWord(x[1]) \o IndexWord(x[2]) ELSE x

\* number of generator leaves of a key
RECURSIVE Leaves(_)
Leaves(x) == IF IsBracket(x) THEN Leaves(x[1]) + Leaves(x[2]) ELSE 1

\* every bracket node carries the number of its leaves as grade
RECURSIVE WellGraded(_)
WellGraded(x) ==
    IF IsBracket(x)
    THEN x[3] = Leaves(x) /\ WellGraded(x[1]) /\ WellGraded(x[2])
    ELSE TRUE

\* order of Hall keys: generators by rank, a generator below every bracket,
\* brackets by grade, then left, then right
RECURSIVE HallLess(_, _)
HallLess(a, b) ==
    IF ~IsBracket(a)
    THEN IF ~IsBracket(b) THEN a[1] < b[1] ELSE TRUE
    ELSE IF ~IsBracket(b) THEN FALSE
    ELSE IF a[3] # b[3] THEN a[3] < b[3]
    ELSE IF a[1] # b[1] THEN HallLess(a[1], b[1])
    ELSE HallLess(a[2], b[2])

HallLeq(a, b) == a = b \/ HallLess(a, b)

\* comparison of Python tuples: lexicographic, a proper prefix is smaller
WordLess(u, v) ==
    \E i \in 1..Len(v) :
        /\ i - 1 <= Len(u)
        /\ \A j \in 1..(i - 1) : u[j] = v[j]
        /\ (i = Len(u) + 1 \/ u[i] < v[i])

\* order and equality of Lyndon keys: those of their index words
LyndonLess(a, b) == WordLess(IndexWord(a), IndexWord(b))

LyndonEq(a, b) == IndexWord(a) = IndexWord(b)

\* ----------------------------------------------------------- is_lyndon
RECURSIVE is_lyndon_scan(_, _, _)
\* variant: a strict increase leaves i where it is
is_lyndon_scan_no_reset(w, i, p) ==
    IF p > Len(w) THEN i = 0
    ELSE IF w[i + 1] < w[p] THEN is_lyndon_scan(w, i, p + 1)
    ELSE IF w[i + 1] = w[p] THEN is_lyndon_scan(w, i + 1, p + 1)
    ELSE FALSE

\* variant: the scan answers True at the end whatever i is
is_lyndon_scan_no_final_test(w, i, p) ==
    IF p > Len(w) THEN TRUE
    ELSE IF w[i + 1] < w[p] THEN is_lyndon_scan(w, 0, p + 1)
    ELSE IF w[i + 1] = w[p] THEN is_lyndon_scan(w, i + 1, p + 1)
    ELSE FALSE

\* the loop of is_lyndon from the p-th letter on, i being the 0-based index
is_lyndon_scan(w, i, p) ==
    IF p > Len(w) THEN i = 0
    ELSE IF w[i + 1] < w[p] THEN is_lyndon_scan(w, 0, p + 1)
    ELSE IF w[i + 1] = w[p] THEN is_lyndon_scan(w, i + 1, p + 1)
    ELSE FALSE

is_lyndon(w) == is_lyndon_scan(w, 0, 2)

\* -------------------------------------------------- Hall set generator
\* variant: b ranges over the whole basis but a, not over basis[i+1:]
UpperPairs_all_ordered(basis, k, filtered) ==
    LET L == Len(basis)
        all == [idx \in 1..(L * L) |-> <<((idx - 1) \div L) + 1, ((idx - 1) % L) + 1>>]
        other == SelectSeq(all, LAMBDA p : p[1] # p[2])
    IN  [j \in 1..Len(other) |->
            GradedLieBracket(basis[other[j][1]], basis[other[j][2]], k)]

\* for i,a in enumerate(basis): for b in basis[i+1:]: [if b._left <= a]:
\* the pairs of positions in loop order, those with i < j kept
UpperPairs(basis, k, filtered) ==
    LET L == Len(basis)
        all == [idx \in 1..(L * L) |-> <<((idx - 1) \div L) + 1, ((idx - 1) % L) + 1>>]
        upper == SelectSeq(all, LAMBDA p : p[1] < p[2])
        row == [j \in 1..Len(upper) |->
                   GradedLieBracket(basis[upper[j][1]], basis[upper[j][2]], k)]
    IN  IF filtered
        THEN SelectSeq(row, LAMBDA x : HallLeq(Left(Right(x)), Left(x)))
        ELSE row

\* variant: the filter b._left <= a is dropped
CrossPairs_unfiltered(A, B, k) ==
    LET L == Len(B)
    IN  [idx \in 1..(Len(A) * L) |->
            GradedLieBracket(A[((idx - 1) \div L) + 1], B[((idx - 1) % L) + 1], k)]

\* for a in A: for b in B: if b._left <= a
CrossPairs(A, B, k) ==
    LET L == Len(B)
        row == [idx \in 1..(Len(A) * L) |->
                   GradedLieBracket(A[((idx - 1) \div L) + 1], B[((idx - 1) % L) + 1], k)]
    IN  SelectSeq(row, LAMBDA x : HallLeq(Left(Right(x)), Left(x)))

RECURSIVE generate_hall_set(_, _)
RECURSIVE LowerGrades(_, _, _)
\* variant: the comprehension also runs over the middle grade k // 2
LowerGrades_with_middle(nn, k, i) ==
    IF i > k \div 2 THEN <<>>
    ELSE CrossPairs(generate_hall_set(nn, i), generate_hall_set(nn, k - i), k)
            \o LowerGrades(nn, k, i + 1)

\* the comprehension over i in range(1, (k+1) // 2), from grade i on
LowerGrades(nn, k, i) ==
    IF i >= (k + 1) \div 2 THEN <<>>
    ELSE CrossPairs(generate_hall_set(nn, i), generate_hall_set(nn, k - i), k)
            \o LowerGrades(nn, k, i + 1)

generate_hall_set(nn, k) ==
    IF k <= 0 THEN <<>>
    ELSE IF k = 1 THEN [i \in 1..nn |-> LieGenerator(i - 1)]
    ELSE IF k = 2 THEN UpperPairs(generate_hall_set(nn, 1), 2, FALSE)
    ELSE LET ret == LowerGrades(nn, k, 1)
             mid == IF k = 4
                    THEN UpperPairs(generate_hall_set(nn, 2), k, FALSE)
                    ELSE IF k % 2 = 0
                    THEN UpperPairs(generate_hall_set(nn, k \div 2), k, TRUE)
                    ELSE <<>>
         IN  SortSeq(ret \o mid, HallLess)

\* ------------------------------------------- Lyndon standard bracketing
None == <<>>

RECURSIVE standard_bracket(_)
RECURSIVE standard_bracket_scan(_, _)
\* variant: the first split point is taken, lw[i:] is not tested
standard_bracket_scan_first_split(lw, i) ==
    IF i >= Len(lw) THEN None
    ELSE LyndonBracket(standard_bracket(SubSeq(lw, 1, i)),
                       standard_bracket(SubSeq(lw, i + 1, Len(lw))),
                       Len(lw))

\* variant: both children are bracketed from the suffix lw[i:]
standard_bracket_scan_suffix_twice(lw, i) ==
    IF i >= Len(lw) THEN None
    ELSE IF is_lyndon(SubSeq(lw, i + 1, Len(lw)))
    THEN LyndonBracket(standard_bracket(SubSeq(lw, i + 1, Len(lw))),
                       standard_bracket(SubSeq(lw, i + 1, Len(lw))),
                       Len(lw))
    ELSE standard_bracket_scan(lw, i + 1)

RECURSIVE standard_bracket_scan_from_end(_, _)
\* variant: the split points are tried from the last one down, so that the
\* shortest Lyndon suffix is taken
standard_bracket_scan_from_end(lw, i) ==
    IF i >= Len(lw) THEN None
    ELSE IF is_lyndon(SubSeq(lw, Len(lw) - i + 1, Len(lw)))
    THEN LyndonBracket(standard_bracket(SubSeq(lw, 1, Len(lw) - i)),
                       standard_bracket(SubSeq(lw, Len(lw) - i + 1, Len(lw))),
                       Len(lw))
    ELSE standard_bracket_scan_from_end(lw, i + 1)

\* the loop "for i in range(1, len(lw))", from split point i on
standard_bracket_scan(lw, i) ==
    IF i >= Len(lw) THEN None
    ELSE IF is_lyndon(SubSeq(lw, i + 1, Len(lw)))
    THEN LyndonBracket(standard_bracket(SubSeq(lw, 1, i)),
                       standard_bracket(SubSeq(lw, i + 1, Len(lw))),
                       Len(lw))
    ELSE standard_bracket_scan(lw, i + 1)

standard_bracket(lw) ==
    IF Len(lw) = 1 THEN LieGenerator(lw[1]) ELSE standard_bracket_scan(lw, 1)

\* variant: only the Lyndon test, the standard factorization is not compared
is_basis_element_word_only(l, r) == is_lyndon(IndexWord(l) \o IndexWord(r))

is_basis_element(l, r) ==
    LET w == IndexWord(l) \o IndexWord(r)
    IN  IF ~is_lyndon(w) THEN FALSE
        ELSE LET b == standard_bracket(w)
             IN  LyndonEq(Left(b), l) /\ LyndonEq(Right(b), r)

RECURSIVE Pow(_, _)
Pow(b, e) == IF e = 0 THEN 1 ELSE b * Pow(b, e - 1)

\* a word is a Lyndon word iff it is strictly smaller than each of its
\* proper rotations
Rotation(w, i) == SubSeq(w, i + 1, Len(w)) \o SubSeq(w, 1, i)

IsLyndonByRotation(w) == \A i \in 1..(Len(w) - 1) : WordLess(w, Rotation(w, i))

\* lyndon_word_iterator(n, k): the Lyndon words of length k over 0..n-1,
\* in lexicographic order (the idx-th word of length k is idx in base n)
lyndon_word_iterator(nn, k) ==
    LET all == [idx \in 1..Pow(nn, k) |->
                   [j \in 1..k |-> ((idx - 1) \div Pow(nn, k - j)) % nn]]
    IN  SelectSeq(all, IsLyndonByRotation)

\* the element with the single term {x: one}
Monomial(x) == (x :> 1)

KeyOf(e) == CHOOSE x \in DOMAIN e : TRUE

Lyndon_graded_basis(nn, k) ==
    IF k <= 0 \/ nn = 0 THEN <<>>
    ELSE IF k = 1 THEN [i \in 1..nn |-> Monomial(LieGenerator(i - 1))]
    ELSE LET words == lyndon_word_iterator(nn, k)
         IN  [j \in 1..Len(words) |-> Monomial(standard_bracket(words[j]))]

Hall_graded_basis(nn, k) ==
    LET hs == generate_hall_set(nn, k)
    IN  [j \in 1..Len(hs) |-> Monomial(hs[j])]

\* ------------------------------------------------------ graded dimension
Divisors(k) == {d \in 1..k : k % d = 0}

IsPrime(p) == p > 1 /\ \A d \in 2..(p - 1) : p % d # 0

moebius(d) ==
    IF \E p \in 2..d : p * p <= d /\ d % (p * p) = 0 THEN 0
    ELSE IF Cardinality({p \in 2..d : IsPrime(p) /\ d % p = 0}) % 2 = 0 THEN 1
    ELSE -1

RECURSIVE SumOver(_, _)
SumOver(S, f) ==
    IF S = {} THEN 0
    ELSE LET d == CHOOSE d \in S : TRUE IN f[d] + SumOver(S \ {d}, f)

\* there is no test of k < 0: ZZ(k).divisors() are the positive divisors of
\* |k|, s**(k // d) is then the fraction 1 / s^(|k| / d), and // k is the floor
\* of the quotient.  With a == |k| the sum is num / s^a, and its quotient by
\* k = -a is (-num) / (s^a * a).
graded_dimension(nn, k) ==
    IF k = 0 THEN 0
    ELSE LET s == nn
         IN  IF k > 0
             THEN SumOver(Divisors(k), [d \in Divisors(k) |-> moebius(d) * Pow(s, k \div d)]) \div k
             ELSE LET a == -k
                      num == SumOver(Divisors(a),
                                     [d \in Divisors(a) |-> moebius(d) * Pow(s, a - (a \div d))])
                  IN  (-num) \div (Pow(s, a) * a)

\* ----------------------------------------------------- rewrite engine
EmptyDict == [x \in {} |-> 0]

\* a summand's contributions <<m, b_elt, coeff * inner_coeff>>; the dict
\* built from them holds, for every b_elt touched, the sum of its
\* contributions (ret[b_elt] = ret.get(b_elt, 0) + coeff * inner_coeff)
RECURSIVE SumTerms(_)
SumTerms(T) ==
    IF T = {} THEN 0
    ELSE LET t == CHOOSE t \in T : TRUE IN t[4] + SumTerms(T \ {t})

Accumulate(T) ==
    [b \in {t[3] : t \in T} |-> SumTerms({t \in T : t[3] = b})]

\* the operands <<x, y>> of the outer call of the left summand and the sign
\* applied to inner_coeff: r._left and m, re-sorted
Hall_left_pair(r, m) ==
    IF HallLess(Left(r), m) THEN <<Left(r), m, 1>> ELSE <<m, Left(r), -1>>

\* variant: the pair is passed on as it stands, never re-sorted
Hall_right_pair_unsorted(r, m) == <<m, Right(r), 1>>

\* variant: the swap forgets to negate inner_coeff
Hall_right_pair_unsigned(r, m) ==
    IF HallLess(m, Right(r)) THEN <<m, Right(r), 1>> ELSE <<Right(r), m, 1>>

\* the same for the right summand: m and r._right, re-sorted
Hall_right_pair(r, m) ==
    IF HallLess(m, Right(r)) THEN <<m, Right(r), 1>> ELSE <<Right(r), m, -1>>

\* variant: the base case asks for r._left < l
Hall_is_canonical_strict(l, r) == ~IsBracket(r) \/ HallLess(Left(r), l)

\* [l, r] is itself a Hall key
Hall_is_canonical(l, r) == ~IsBracket(r) \/ HallLeq(Left(r), l)

RECURSIVE Hall_rewrite_bracket(_, _)
Hall_rewrite_bracket(l, r) ==
    IF Hall_is_canonical(l, r)
    THEN (GradedLieBracket(l, r, GradeOf(l) + GradeOf(r)) :> 1)
    ELSE LET inner1 == Hall_rewrite_bracket(l, Right(r))
             left(m) ==
                 LET xy == Hall_left_pair(r, m)
                     inner_coeff == xy[3] * inner1[m]
                     res == Hall_rewrite_bracket(xy[1], xy[2])
                 IN  {<<1, m, b_elt, res[b_elt] * inner_coeff>> : b_elt \in DOMAIN res}
             inner2 == Hall_rewrite_bracket(l, Left(r))
             right(m) ==
                 LET xy == Hall_right_pair(r, m)
                     inner_coeff == xy[3] * inner2[m]
                     res == Hall_rewrite_bracket(xy[1], xy[2])
                 IN  {<<2, m, b_elt, res[b_elt] * inner_coeff>> : b_elt \in DOMAIN res}
         IN  Accumulate(UNION {left(m) : m \in {m \in DOMAIN inner1 : Left(r) # m}}
                        \cup UNION {right(m) : m \in {m \in DOMAIN inner2 : m # Right(r)}})

\* the outcome of a call that may raise: the exception, or the dict returned
Returned(d) == [exc |-> "none", ret |-> d]

Raised(e) == [exc |-> e, ret |-> EmptyDict]

\* the operands <<x, y>> of the outer call of the left summand and the sign
\* applied to inner_coeff: l._left and m, re-sorted
Lyndon_left_pair(l, m) ==
    IF LyndonLess(Left(l), m) THEN <<Left(l), m, 1>> ELSE <<m, Left(l), -1>>

\* variant: the right summand passes its pair on without re-sorting it
Lyndon_right_pair_unsorted(l, m) == <<m, Right(l), 1>>

\* variant: the swap of the right summand forgets to negate inner_coeff
Lyndon_right_pair_unsigned(l, m) ==
    IF LyndonLess(m, Right(l)) THEN <<m, Right(l), 1>> ELSE <<Right(l), m, 1>>

\* the same for the right summand: m and l._right, re-sorted
Lyndon_right_pair(l, m) ==
    IF LyndonLess(m, Right(l)) THEN <<m, Right(l), 1>> ELSE <<Right(l), m, -1>>

RECURSIVE Lyndon_rewrite_bracket(_, _)
Lyndon_rewrite_bracket(l, r) ==
    IF ~LyndonLess(l, r) THEN Raised("AssertionError")
    ELSE IF is_basis_element(l, r)
    THEN Returned(LyndonBracket(l, r, GradeOf(l) + GradeOf(r)) :> 1)
    ELSE IF ~IsBracket(l) THEN Raised("AttributeError")
    ELSE LET inner1 == Lyndon_rewrite_bracket(Right(l), r)
             M1 == {m \in DOMAIN inner1.ret : ~LyndonEq(Left(l), m)}
             outer1 == [m \in M1 |->
                           LET xy == Lyndon_left_pair(l, m)
                           IN  Lyndon_rewrite_bracket(xy[1], xy[2])]
             left(m) ==
                 LET inner_coeff == Lyndon_left_pair(l, m)[3] * inner1.ret[m]
                     res == outer1[m].ret
                 IN  {<<1, m, b_elt, res[b_elt] * inner_coeff>> : b_elt \in DOMAIN res}
             inner2 == Lyndon_rewrite_bracket(Left(l), r)
             M2 == {m \in DOMAIN inner2.ret : ~LyndonEq(m, Right(l))}
             outer2 == [m \in M2 |->
                           LET xy == Lyndon_right_pair(l, m)
                           IN  Lyndon_rewrite_bracket(xy[1], xy[2])]
             right(m) ==
                 LET inner_coeff == Lyndon_right_pair(l, m)[3] * inner2.ret[m]
                     res == outer2[m].ret
                 IN  {<<2, m, b_elt, res[b_elt] * inner_coeff>> : b_elt \in DOMAIN res}
         IN  IF inner1.exc # "none" THEN inner1
             ELSE IF \E m \in M1 : outer1[m].exc # "none"
             THEN outer1[CHOOSE m \in M1 : outer1[m].exc # "none"]
             ELSE IF inner2.exc # "none" THEN inner2
             ELSE IF \E m \in M2 : outer2[m].exc # "none"
             THEN outer2[CHOOSE m \in M2 : outer2[m].exc # "none"]
             ELSE Returned(Accumulate(UNION {left(m) : m \in M1}
                                      \cup UNION {right(m) : m \in M2}))

\* ----------------------------------------- the bracket of two elements
\* bilinear, antisymmetric extension of the rewrite to linear combinations:
\* equal keys contribute nothing, a swapped pair negates the coefficient
Hall_bracket(X, Y) ==
    Accumulate(UNION {
        LET swap == ~HallLess(p[1], p[2])
            a == IF swap THEN p[2] ELSE p[1]
            b == IF swap THEN p[1] ELSE p[2]
            c == IF swap THEN -(X[p[1]] * Y[p[2]]) ELSE X[p[1]] * Y[p[2]]
            res == Hall_rewrite_bracket(a, b)
        IN  {<<p[1], p[2], b_elt, c * res[b_elt]>> : b_elt \in DOMAIN res}
      : p \in {q \in (DOMAIN X) \X (DOMAIN Y) : q[1] # q[2]} })

Lyndon_bracket(X, Y) ==
    Accumulate(UNION {
        LET swap == ~LyndonLess(p[1], p[2])
            a == IF swap THEN p[2] ELSE p[1]
            b == IF swap THEN p[1] ELSE p[2]
            c == IF swap THEN -(X[p[1]] * Y[p[2]]) ELSE X[p[1]] * Y[p[2]]
            res == Lyndon_rewrite_bracket(a, b).ret
        IN  {<<p[1], p[2], b_elt, c * res[b_elt]>> : b_elt \in DOMAIN res}
      : p \in {q \in (DOMAIN X) \X (DOMAIN Y) : ~LyndonEq(q[1], q[2])} })

\* the sum of linear combinations, zero coefficients kept
AddDict(A, B) ==
    [b \in (DOMAIN A) \cup (DOMAIN B) |->
        (IF b \in DOMAIN A THEN A[b] ELSE 0) + (IF b \in DOMAIN B THEN B[b] ELSE 0)]

\* [[x,y],z] + [[y,z],x] + [[z,x],y]
Hall_jacobi_sum(x, y, z) ==
    AddDict(AddDict(Hall_bracket(Hall_bracket(Monomial(x), Monomial(y)), Monomial(z)),
                    Hall_bracket(Hall_bracket(Monomial(y), Monomial(z)), Monomial(x))),
            Hall_bracket(Hall_bracket(Monomial(z), Monomial(x)), Monomial(y)))

Lyndon_jacobi_sum(x, y, z) ==
    AddDict(AddDict(Lyndon_bracket(Lyndon_bracket(Monomial(x), Monomial(y)), Monomial(z)),
                    Lyndon_bracket(Lyndon_bracket(Monomial(y), Monomial(z)), Monomial(x))),
            Lyndon_bracket(Lyndon_bracket(Monomial(z), Monomial(x)), Monomial(y)))

\* ------------------------------------------- coercions between the bases
\* an element as the algebra holds it: no key with coefficient zero
Normal(X) == [b \in {b \in DOMAIN X : X[b] # 0} |-> X[b]]

\* the homomorphism Hall -> Lyndon sending each generator to itself, on a
\* key: its bracket tree evaluated with the Lyndon bracket
RECURSIVE Hall_to_Lyndon_key(_)
Hall_to_Lyndon_key(x) ==
    IF IsBracket(x)
    THEN Normal(Lyndon_bracket(Hall_to_Lyndon_key(Left(x)), Hall_to_Lyndon_key(Right(x))))
    ELSE Monomial(x)

\* the homomorphism Lyndon -> Hall, on a key
RECURSIVE Lyndon_to_Hall_key(_)
Lyndon_to_Hall_key(x) ==
    IF IsBracket(x)
    THEN Normal(Hall_bracket(Lyndon_to_Hall_key(Left(x)), Lyndon_to_Hall_key(Right(x))))
    ELSE Monomial(x)

\* Lyn(X) for an element X of the Hall basis: linear extension
Hall_to_Lyndon(X) ==
    Normal(Accumulate(UNION {
        LET img == Hall_to_Lyndon_key(b)
        IN  {<<0, b, c, X[b] * img[c]>> : c \in DOMAIN img}
      : b \in DOMAIN X }))

\* H(X) for an element X of the Lyndon basis
Lyndon_to_Hall(X) ==
    Normal(Accumulate(UNION {
        LET img == Lyndon_to_Hall_key(b)
        IN  {<<0, b, c, X[b] * img[c]>> : c \in DOMAIN img}
      : b \in DOMAIN X }))

\* ------------------------------------------- the recursion, call by call
\* a call of _rewrite_bracket(l, r) in progress: pc is the place reached
\* ("entry", the loop headers "inner1", "inner2", the loop bodies "outer1",
\* "outer2"), ms the items (m, inner_coeff) the current loop still has to
\* visit, ret the dict built so far.
\* A dict is held here with its insertion order, as the sequence of its
\* items <<key, value>>, each key once.
EmptyItems == <<>>

Frame(l, r) == [l |-> l, r |-> r, pc |-> "entry", ms |-> <<>>, ret |-> EmptyItems]

\* {b: self.base_ring().one()}
OneItem(b) == << <<b, 1>> >>

\* d.items(): the items in insertion order
Items(d) == [i \in 1..Len(d) |-> <<d[i][1], d[i][2]>>]

HasKey(d, b) == \E i \in 1..Len(d) : d[i][1] = b

\* d.get(b, 0)
Get(d, b) == IF HasKey(d, b) THEN d[CHOOSE i \in 1..Len(d) : d[i][1] = b][2] ELSE 0

\* the mapping a dict is, its insertion order left out
Dict(d) == [b \in {d[i][1] : i \in 1..Len(d)} |-> Get(d, b)]

\* for b_elt, coeff in d.items(): ret[b_elt] = ret.get(b_elt, 0) + coeff * inner_coeff:
\* a key ret holds keeps its place, a new key goes to the end
AddScaled(ret, d, inner_coeff) ==
    LET new == SelectSeq(Items(d), LAMBDA it : ~HasKey(ret, it[1]))
    IN  [i \in 1..Len(ret) |->
            <<ret[i][1], ret[i][2] + Get(d, ret[i][1]) * inner_coeff>>]
        \o [i \in 1..Len(new) |-> <<new[i][1], 0 + new[i][2] * inner_coeff>>]

NoCall == <<>>

\* the pair _rewrite_bracket is called on next by the Hall frame f, with the
\* sign given to inner_coeff; NoCall when the frame makes no call here
Hall_next_call(f) ==
    IF f.pc = "inner1" THEN <<f.l, Right(f.r), 1>>
    ELSE IF f.pc = "inner2" THEN <<f.l, Left(f.r), 1>>
    ELSE IF f.pc = "outer1" /\ f.ms # <<>> /\ Left(f.r) # f.ms[1][1]
    THEN Hall_left_pair(f.r, f.ms[1][1])
    ELSE IF f.pc = "outer2" /\ f.ms # <<>> /\ f.ms[1][1] # Right(f.r)
    THEN Hall_right_pair(f.r, f.ms[1][1])
    ELSE NoCall

\* the same for a frame of the Lyndon variant
Lyndon_next_call(f) ==
    IF f.pc = "inner1" THEN <<Right(f.l), f.r, 1>>
    ELSE IF f.pc = "inner2" THEN <<Left(f.l), f.r, 1>>
    ELSE IF f.pc = "outer1" /\ f.ms # <<>> /\ ~LyndonEq(Left(f.l), f.ms[1][1])
    THEN Lyndon_left_pair(f.l, f.ms[1][1])
    ELSE IF f.pc = "outer2" /\ f.ms # <<>> /\ ~LyndonEq(f.ms[1][1], Right(f.l))
    THEN Lyndon_right_pair(f.l, f.ms[1][1])
    ELSE NoCall

\* the frame f, past the statement at f.pc; res is the dict the call made
\* there returned, sign the sign given to inner_coeff
Advance(f, res, sign) ==
    IF f.pc = "inner1" THEN [f EXCEPT !.pc = "outer1", !.ms = Items(res)]
    ELSE IF f.pc = "inner2" THEN [f EXCEPT !.pc = "outer2", !.ms = Items(res)]
    ELSE [f EXCEPT !.ms = Tail(f.ms),
                   !.ret = AddScaled(f.ret, res, sign * f.ms[1][2])]

\* the frame f, past a loop item that makes no call (continue), or past the
\* end of the first loop
Skip(f) ==
    IF f.ms # <<>> THEN [f EXCEPT !.ms = Tail(f.ms)]
    ELSE [f EXCEPT !.pc = "inner2"]

\* what the Lyndon _rewrite_bracket(l, r) raises before any recursive call;
\* basis is the value of self._is_basis_element(l, r)
Lyndon_entry_error(l, r, basis) ==
    IF ~LyndonLess(l, r) THEN "AssertionError"
    ELSE IF basis THEN "none"
    ELSE IF ~IsBracket(l) THEN "AttributeError"
    ELSE "none"

OnStack(c) == \E i \in 1..Len(stack) : stack[i].l = c[1] /\ stack[i].r = c[2]

\* ------------------------------------- the recursion, with its cache
\* Hall._rewrite_bracket(l, r) under @cached_method, m the cache before the
\* call: the cache after it, which holds the dict returned under <<l, r>>
RECURSIVE Hall_cached_rewrite(_, _, _)
\* the loop over items of one summand of the call on (l, r), from the i-th
\* item on; side is "left" or "right", ret the dict and m the cache so far
RECURSIVE Hall_summand(_, _, _, _, _, _)
Hall_summand(r, side, items, i, ret, m) ==
    IF i > Len(items) THEN [ret |-> ret, memo |-> m]
    ELSE LET key == items[i][1]
             skip == IF side = "left" THEN Left(r) = key ELSE key = Right(r)
             call == IF side = "left" THEN Hall_left_pair(r, key)
                                      ELSE Hall_right_pair(r, key)
             m1 == Hall_cached_rewrite(call[1], call[2], m)
         IN  IF skip THEN Hall_summand(r, side, items, i + 1, ret, m)
             ELSE Hall_summand(r, side, items, i + 1,
                               AddScaled(ret, m1[<<call[1], call[2]>>],
                                         call[3] * items[i][2]),
                               m1)

Hall_cached_rewrite(l, r, m) ==
    IF <<l, r>> \in DOMAIN m THEN m
    ELSE IF Hall_is_canonical(l, r)
    THEN m @@ (<<l, r>> :> OneItem(GradedLieBracket(l, r, GradeOf(l) + GradeOf(r))))
    ELSE LET m1 == Hall_cached_rewrite(l, Right(r), m)
             s1 == Hall_summand(r, "left", Items(m1[<<l, Right(r)>>]), 1,
                                EmptyItems, m1)
             m2 == Hall_cached_rewrite(l, Left(r), s1.memo)
             s2 == Hall_summand(r, "right", Items(m2[<<l, Left(r)>>]), 1,
                                s1.ret, m2)
         IN  s2.memo @@ (<<l, r>> :> s2.ret)

\* the same for Lyndon._rewrite_bracket: the cache after the call and the
\* exception raised ("none" when it returns); a call that raises is not cached
RECURSIVE Lyndon_cached_rewrite(_, _, _)
RECURSIVE Lyndon_summand(_, _, _, _, _, _)
Lyndon_summand(l, side, items, i, ret, m) ==
    IF i > Len(items) THEN [ret |-> ret, memo |-> m, exc |-> "none"]
    ELSE LET key == items[i][1]
             skip == IF side = "left" THEN LyndonEq(Left(l), key)
                                      ELSE LyndonEq(key, Right(l))
             call == IF side = "left" THEN Lyndon_left_pair(l, key)
                                      ELSE Lyndon_right_pair(l, key)
             c == Lyndon_cached_rewrite(call[1], call[2], m)
         IN  IF skip THEN Lyndon_summand(l, side, items, i + 1, ret, m)
             ELSE IF c.exc # "none" THEN [ret |-> ret, memo |-> c.memo, exc |-> c.exc]
             ELSE Lyndon_summand(l, side, items, i + 1,
                                 AddScaled(ret, c.memo[<<call[1], call[2]>>],
                                           call[3] * items[i][2]),
                                 c.memo)

Lyndon_cached_rewrite(l, r, m) ==
    IF <<l, r>> \in DOMAIN m THEN [memo |-> m, exc |-> "none"]
    ELSE LET basis == is_basis_element(l, r)
             e == Lyndon_entry_error(l, r, basis)
             c1 == Lyndon_cached_rewrite(Right(l), r, m)
             s1 == Lyndon_summand(l, "left", Items(c1.memo[<<Right(l), r>>]), 1,
                                  EmptyItems, c1.memo)
             c2 == Lyndon_cached_rewrite(Left(l), r, s1.memo)
             s2 == Lyndon_summand(l, "right", Items(c2.memo[<<Left(l), r>>]), 1,
                                  s1.ret, c2.memo)
         IN  IF e # "none" THEN [memo |-> m, exc |-> e]
             ELSE IF basis
             THEN [memo |-> m @@ (<<l, r>> :>
                        OneItem(LyndonBracket(l, r, GradeOf(l) + GradeOf(r)))),
                   exc |-> "none"]
             ELSE IF c1.exc # "none" THEN c1
             ELSE IF s1.exc # "none" THEN [memo |-> s1.memo, exc |-> s1.exc]
             ELSE IF c2.exc # "none" THEN c2
             ELSE IF s2.exc # "none" THEN [memo |-> s2.memo, exc |-> s2.exc]
             ELSE [memo |-> s2.memo @@ (<<l, r>> :> s2.ret), exc |-> "none"]

\* several caches as one: a pair is held under the same dict in each cache
\* that holds it
MergeCaches(S) ==
    [p \in UNION {DOMAIN c : c \in S} |-> (CHOOSE c \in S : p \in DOMAIN c)[p]]

\* the cache of the Hall basis after the bracket of the elements X and Y, m
\* the cache before: _rewrite_bracket is called on every pair of unequal
\* keys, the smaller first
Hall_bracket_cache(X, Y, m) ==
    MergeCaches({m} \cup
        { IF HallLess(p[1], p[2]) THEN Hall_cached_rewrite(p[1], p[2], m)
                                  ELSE Hall_cached_rewrite(p[2], p[1], m)
          : p \in {q \in (DOMAIN X) \X (DOMAIN Y) : q[1] # q[2]} })

Lyndon_bracket_cache(X, Y, m) ==
    MergeCaches({m} \cup
        { IF LyndonLess(p[1], p[2]) THEN Lyndon_cached_rewrite(p[1], p[2], m).memo
                                    ELSE Lyndon_cached_rewrite(p[2], p[1], m).memo
          : p \in {q \in (DOMAIN X) \X (DOMAIN Y) : ~LyndonEq(q[1], q[2])} })

\* the cache of the Lyndon basis after the Hall key x is converted
RECURSIVE Hall_to_Lyndon_key_cache(_, _)
Hall_to_Lyndon_key_cache(x, m) ==
    IF IsBracket(x)
    THEN Lyndon_bracket_cache(Hall_to_Lyndon_key(Left(x)), Hall_to_Lyndon_key(Right(x)),
            Hall_to_Lyndon_key_cache(Right(x), Hall_to_Lyndon_key_cache(Left(x), m)))
    ELSE m

\* the cache of the Hall basis after the Lyndon key x is converted
RECURSIVE Lyndon_to_Hall_key_cache(_, _)
Lyndon_to_Hall_key_cache(x, m) ==
    IF IsBracket(x)
    THEN Hall_bracket_cache(Lyndon_to_Hall_key(Left(x)), Lyndon_to_Hall_key(Right(x)),
            Lyndon_to_Hall_key_cache(Right(x), Lyndon_to_Hall_key_cache(Left(x), m)))
    ELSE m

\* the same after the element X is converted, key by key
Hall_to_Lyndon_cache(X, m) ==
    MergeCaches({m} \cup {Hall_to_Lyndon_key_cache(b, m) : b \in DOMAIN X})

Lyndon_to_Hall_cache(X, m) ==
    MergeCaches({m} \cup {Lyndon_to_Hall_key_cache(b, m) : b \in DOMAIN X})

\* the cache after [[x,y],z] is formed
Hall_double_bracket_cache(x, y, z, m) ==
    Hall_bracket_cache(Normal(Hall_bracket(Monomial(x), Monomial(y))), Monomial(z),
                       Hall_bracket_cache(Monomial(x), Monomial(y), m))

Lyndon_double_bracket_cache(x, y, z, m) ==
    Lyndon_bracket_cache(Normal(Lyndon_bracket(Monomial(x), Monomial(y))), Monomial(z),
                         Lyndon_bracket_cache(Monomial(x), Monomial(y), m))

\* the cache after [[x,y],z] + [[y,z],x] + [[z,x],y] is formed
Hall_jacobi_cache(x, y, z, m) ==
    Hall_double_bracket_cache(z, x, y,
        Hall_double_bracket_cache(y, z, x,
            Hall_double_bracket_cache(x, y, z, m)))

Lyndon_jacobi_cache(x, y, z, m) ==
    Lyndon_double_bracket_cache(z, x, y,
        Lyndon_double_bracket_cache(y, z, x,
            Lyndon_double_bracket_cache(x, y, z, m)))

\* ------------------------------------------------- generators by name
\* variant: the rank of a generator is the place of its name among the
\* names sorted alphabetically
index_alphabetical(nms, x) == Cardinality({j \in 1..Len(nms) : nms[j] < x})

\* self._indices.index(x): the 0-based position of the name x in the list
index(nms, x) == (CHOOSE i \in 1..Len(nms) : nms[i] = x) - 1

\* monomial(x) for a name x: the generator LieGenerator(x, index(x)); the key
\* keeps the rank, the name is read back from the list
monomial(nms, x) == Monomial(LieGenerator(index(nms, x)))

\* a key with the name of each generator in place of its rank, as printed
RECURSIVE Named(_, _)
Named(x, nms) ==
    IF IsBracket(x) THEN <<Named(Left(x), nms), Named(Right(x), nms)>>
    ELSE nms[x[1] + 1]

\* ------------------------------------------------ the bases, per n and k
MaxBasisGrade ==
    LET m == IF MaxRewriteGrade > MaxHallGrade THEN MaxRewriteGrade ELSE MaxHallGrade
        d == IF MaxDeepGrade > m THEN MaxDeepGrade ELSE m
        t == IF MaxRoundTripGrade > d THEN MaxRoundTripGrade ELSE d
    IN  IF MaxRecursionGrade > t THEN MaxRecursionGrade ELSE t

Range(f) == {f[j] : j \in DOMAIN f}

\* the keys of H.graded_basis(k), for every n and k within the bounds
HallKeyTable ==
    [nn \in 1..MaxGens |-> [k \in 1..MaxBasisGrade |->
        {KeyOf(e) : e \in Range(Hall_graded_basis(nn, k))}]]

\* the keys of Lyn.graded_basis(k)
LyndonKeyTable ==
    [nn \in 1..MaxGens |-> [k \in 1..MaxBasisGrade |->
        {KeyOf(e) : e \in Range(Lyndon_graded_basis(nn, k))}]]

HallKeys(nn, k) == HallKeyTable[nn][k]

LyndonKeys(nn, k) == LyndonKeyTable[nn][k]

\* the pairs (l, r) of Lyndon keys, of total grade up to MaxRecursionGrade,
\* with self._is_basis_element(l, r)
Lyndon_basis_pairs ==
    UNION { {p \in LyndonKeys(MaxGens, g[1]) \X LyndonKeys(MaxGens, g[2]) :
                is_basis_element(p[1], p[2])}
            : g \in {q \in (1..MaxRecursionGrade) \X (1..MaxRecursionGrade) :
                        q[1] + q[2] <= MaxRecursionGrade} }

\* --------------------------------------------------------- state machine
NoKey == <<>>

\* the cache of a basis object just made
EmptyCache == [p \in {} |-> EmptyItems]

EmptyMemo == [Hall |-> EmptyCache, Lyndon |-> EmptyCache]

\* nothing called yet
Idle ==
    /\ op = "idle"
    /\ argK = 0
    /\ argW = <<>>
    /\ argL = NoKey
    /\ argR = NoKey
    /\ argZ = NoKey
    /\ out = <<>>
    /\ err = "none"
    /\ stack = <<>>
    /\ memo = EmptyMemo

\* LieAlgebra(QQ, n, 'x'): the generators x0, x1, ... declared in that order
Init ==
    /\ n \in 1..MaxGens
    /\ names = [i \in 1..n |-> i]
    /\ op = "idle"
    /\ argK = 0
    /\ argW = <<>>
    /\ argL = NoKey
    /\ argR = NoKey
    /\ argZ = NoKey
    /\ out = <<>>
    /\ err = "none"
    /\ stack = <<>>
    /\ memo = EmptyMemo

\* H._generate_hall_set(k)
GenerateHallSet ==
    /\ op = "idle"
    /\ \E k \in (-1)..MaxHallGrade :
        /\ op' = "generate_hall_set"
        /\ argK' = k
        /\ out' = generate_hall_set(n, k)
    /\ UNCHANGED <<n, names, stack, memo, argW, argL, argR, argZ, err>>

\* H.graded_basis(k)
HallGradedBasis ==
    /\ op = "idle"
    /\ \E k \in (-1)..MaxHallGrade :
        /\ op' = "Hall.graded_basis"
        /\ argK' = k
        /\ out' = Hall_graded_basis(n, k)
    /\ UNCHANGED <<n, names, stack, memo, argW, argL, argR, argZ, err>>

\* Lyn.graded_basis(k)
LyndonGradedBasis ==
    /\ op = "idle"
    /\ \E k \in (-1)..MaxHallGrade :
        /\ op' = "Lyndon.graded_basis"
        /\ argK' = k
        /\ out' = Lyndon_graded_basis(n, k)
    /\ UNCHANGED <<n, names, stack, memo, argW, argL, argR, argZ, err>>

\* graded_dimension(k)
GradedDimension ==
    /\ op = "idle"
    /\ \E k \in (-MaxNegGrade)..MaxDimGrade :
        /\ op' = "graded_dimension"
        /\ argK' = k
        /\ out' = graded_dimension(n, k)
    /\ UNCHANGED <<n, names, stack, memo, argW, argL, argR, argZ, err>>

\* is_lyndon(w)
IsLyndon ==
    /\ op = "idle"
    /\ \E len \in 1..MaxWordLen :
        \E w \in [1..len -> 0..MaxLetter] :
            /\ op' = "is_lyndon"
            /\ argW' = w
            /\ out' = is_lyndon(w)
    /\ UNCHANGED <<n, names, stack, memo, argK, argL, argR, argZ, err>>

\* H._rewrite_bracket(l, r) on two keys of the Hall basis, in either order
HallRewrite ==
    /\ op = "idle"
    /\ \E gl \in 1..(MaxRewriteGrade - 1) :
        \E gr \in 1..(MaxRewriteGrade - gl) :
            \E l \in HallKeys(n, gl) :
                \E r \in HallKeys(n, gr) :
                    /\ op' = "Hall._rewrite_bracket"
                    /\ argL' = l
                    /\ argR' = r
                    /\ out' = Hall_rewrite_bracket(l, r)
                    /\ memo' = [memo EXCEPT !.Hall = Hall_cached_rewrite(l, r, memo.Hall)]
    /\ UNCHANGED <<n, names, stack, argK, argW, argZ, err>>

\* Lyn._rewrite_bracket(l, r) on two keys of the Lyndon basis, in either order
LyndonRewrite ==
    /\ op = "idle"
    /\ \E gl \in 1..(MaxRewriteGrade - 1) :
        \E gr \in 1..(MaxRewriteGrade - gl) :
            \E l \in LyndonKeys(n, gl) :
                \E r \in LyndonKeys(n, gr) :
                    LET res == Lyndon_rewrite_bracket(l, r)
                    IN  /\ op' = "Lyndon._rewrite_bracket"
                        /\ argL' = l
                        /\ argR' = r
                        /\ out' = res.ret
                        /\ err' = res.exc
                        /\ memo' = [memo EXCEPT !.Lyndon = Lyndon_cached_rewrite(l, r, memo.Lyndon).memo]
    /\ UNCHANGED <<n, names, stack, argK, argW, argZ>>

\* the caller forms [[x,y],z] + [[y,z],x] + [[z,x],y] in the Hall basis
HallJacobi ==
    /\ op = "idle"
    /\ \E gx \in 1..(MaxJacobiGrade - 2) :
        \E gy \in 1..(MaxJacobiGrade - gx - 1) :
            \E gz \in 1..(MaxJacobiGrade - gx - gy) :
                \E x \in HallKeys(n, gx) :
                    \E y \in HallKeys(n, gy) :
                        \E z \in HallKeys(n, gz) :
                            /\ op' = "Hall.jacobi"
                            /\ argL' = x
                            /\ argR' = y
                            /\ argZ' = z
                            /\ out' = Hall_jacobi_sum(x, y, z)
                            /\ memo' = [memo EXCEPT !.Hall = Hall_jacobi_cache(x, y, z, @)]
    /\ UNCHANGED <<n, names, stack, argK, argW, err>>

\* the same in the Lyndon basis
LyndonJacobi ==
    /\ op = "idle"
    /\ \E gx \in 1..(MaxJacobiGrade - 2) :
        \E gy \in 1..(MaxJacobiGrade - gx - 1) :
            \E gz \in 1..(MaxJacobiGrade - gx - gy) :
                \E x \in LyndonKeys(n, gx) :
                    \E y \in LyndonKeys(n, gy) :
                        \E z \in LyndonKeys(n, gz) :
                            /\ op' = "Lyndon.jacobi"
                            /\ argL' = x
                            /\ argR' = y
                            /\ argZ' = z
                            /\ out' = Lyndon_jacobi_sum(x, y, z)
                            /\ memo' = [memo EXCEPT !.Lyndon = Lyndon_jacobi_cache(x, y, z, @)]
    /\ UNCHANGED <<n, names, stack, argK, argW, err>>

\* H._rewrite_bracket(l, r) on a key l of the Hall basis and a generator r
HallRewriteByGenerator ==
    /\ op = "idle"
    /\ \E gl \in 1..(MaxDeepGrade - 1) :
        \E l \in HallKeys(n, gl) :
            \E r \in HallKeys(n, 1) :
                /\ op' = "Hall._rewrite_bracket"
                /\ argL' = l
                /\ argR' = r
                /\ out' = Hall_rewrite_bracket(l, r)
                /\ memo' = [memo EXCEPT !.Hall = Hall_cached_rewrite(l, r, memo.Hall)]
    /\ UNCHANGED <<n, names, stack, argK, argW, argZ, err>>

\* Lyn._rewrite_bracket(l, r) on a key l of the Lyndon basis and a generator r
LyndonRewriteByGenerator ==
    /\ op = "idle"
    /\ \E gl \in 1..(MaxDeepGrade - 1) :
        \E l \in LyndonKeys(n, gl) :
            \E r \in LyndonKeys(n, 1) :
                LET res == Lyndon_rewrite_bracket(l, r)
                IN  /\ op' = "Lyndon._rewrite_bracket"
                    /\ argL' = l
                    /\ argR' = r
                    /\ out' = res.ret
                    /\ err' = res.exc
                    /\ memo' = [memo EXCEPT !.Lyndon = Lyndon_cached_rewrite(l, r, memo.Lyndon).memo]
    /\ UNCHANGED <<n, names, stack, argK, argW, argZ>>

\* H(Lyn(x)) for x in H.graded_basis(k): out holds Lyn(x), then H(Lyn(x))
HallRoundTrip ==
    /\ op = "idle"
    /\ \E k \in 1..MaxRoundTripGrade :
        \E x \in HallKeys(n, k) :
            LET mid == Hall_to_Lyndon(Monomial(x))
            IN  /\ op' = "Hall.round_trip"
                /\ argK' = k
                /\ argL' = x
                /\ out' = <<mid, Lyndon_to_Hall(mid)>>
                /\ memo' = [Lyndon |-> Hall_to_Lyndon_cache(Monomial(x), memo.Lyndon),
                            Hall |-> Lyndon_to_Hall_cache(mid, memo.Hall)]
    /\ UNCHANGED <<n, names, stack, argW, argR, argZ, err>>

\* Lyn(H(x)) for x in Lyn.graded_basis(k): out holds H(x), then Lyn(H(x))
LyndonRoundTrip ==
    /\ op = "idle"
    /\ \E k \in 1..MaxRoundTripGrade :
        \E x \in LyndonKeys(n, k) :
            LET mid == Lyndon_to_Hall(Monomial(x))
            IN  /\ op' = "Lyndon.round_trip"
                /\ argK' = k
                /\ argL' = x
                /\ out' = <<mid, Hall_to_Lyndon(mid)>>
                /\ memo' = [Hall |-> Lyndon_to_Hall_cache(Monomial(x), memo.Hall),
                            Lyndon |-> Hall_to_Lyndon_cache(mid, memo.Lyndon)]
    /\ UNCHANGED <<n, names, stack, argW, argR, argZ, err>>

\* a.bracket(b) in the Hall basis for the generators named a and b
HallBracketByName ==
    /\ op = "idle"
    /\ \E a \in Range(names) :
        \E b \in Range(names) :
            /\ op' = "Hall.bracket"
            /\ argW' = <<a, b>>
            /\ argL' = KeyOf(monomial(names, a))
            /\ argR' = KeyOf(monomial(names, b))
            /\ out' = Normal(Hall_bracket(monomial(names, a), monomial(names, b)))
            /\ memo' = [memo EXCEPT !.Hall =
                            Hall_bracket_cache(monomial(names, a), monomial(names, b), @)]
    /\ UNCHANGED <<n, names, stack, argK, argZ, err>>

\* a.bracket(b) in the Lyndon basis
LyndonBracketByName ==
    /\ op = "idle"
    /\ \E a \in Range(names) :
        \E b \in Range(names) :
            /\ op' = "Lyndon.bracket"
            /\ argW' = <<a, b>>
            /\ argL' = KeyOf(monomial(names, a))
            /\ argR' = KeyOf(monomial(names, b))
            /\ out' = Normal(Lyndon_bracket(monomial(names, a), monomial(names, b)))
            /\ memo' = [memo EXCEPT !.Lyndon =
                            Lyndon_bracket_cache(monomial(names, a), monomial(names, b), @)]
    /\ UNCHANGED <<n, names, stack, argK, argZ, err>>

\* a call of H._rewrite_bracket(l, r), l < r, on a basis object just made
HallCall ==
    /\ op = "idle"
    /\ \E gl \in 1..(MaxRecursionGrade - 1) :
        \E gr \in 1..(MaxRecursionGrade - gl) :
            \E l \in HallKeys(n, gl) :
                \E r \in {y \in HallKeys(n, gr) : HallLess(l, y)} :
                    /\ op' = "Hall.recursion"
                    /\ argL' = l
                    /\ argR' = r
                    /\ stack' = <<Frame(l, r)>>
    /\ UNCHANGED <<n, names, argK, argW, argZ, out, err, memo>>

\* one step of the innermost call of H._rewrite_bracket
HallStep ==
    /\ op = "Hall.recursion"
    /\ stack # <<>>
    /\ \E f \in {stack[Len(stack)]} :
       \E call \in {Hall_next_call(f)} :
       \E base \in {f.pc = "entry" /\ Hall_is_canonical(f.l, f.r)} :
       LET rest == SubSeq(stack, 1, Len(stack) - 1)
           pair == <<call[1], call[2]>>
           done == base \/ (f.pc = "outer2" /\ f.ms = <<>>)
           result == IF base
                     THEN OneItem(GradedLieBracket(f.l, f.r, GradeOf(f.l) + GradeOf(f.r)))
                     ELSE f.ret
       IN  IF done
           THEN /\ stack' = rest
                /\ memo' = [memo EXCEPT !.Hall = @ @@ (<<f.l, f.r>> :> result)]
                /\ op' = IF rest = <<>> THEN "Hall.recursion.returned" ELSE op
                /\ out' = IF rest = <<>> THEN Dict(result) ELSE out
           ELSE IF f.pc = "entry"
           THEN /\ stack' = Append(rest, [f EXCEPT !.pc = "inner1"])
                /\ UNCHANGED <<memo, op, out>>
           ELSE IF call = NoCall
           THEN /\ stack' = Append(rest, Skip(f))
                /\ UNCHANGED <<memo, op, out>>
           ELSE IF pair \in DOMAIN memo.Hall
           THEN /\ stack' = Append(rest, Advance(f, memo.Hall[pair], call[3]))
                /\ UNCHANGED <<memo, op, out>>
           ELSE /\ stack' = Append(stack, Frame(pair[1], pair[2]))
                /\ op' = IF OnStack(pair) THEN "Hall.recursion.diverged" ELSE op
                /\ UNCHANGED <<memo, out>>
    /\ UNCHANGED <<n, names, argK, argW, argL, argR, argZ, err>>

\* a call of Lyn._rewrite_bracket(l, r), l < r, on a basis object just made
LyndonCall ==
    /\ op = "idle"
    /\ \E gl \in 1..(MaxRecursionGrade - 1) :
        \E gr \in 1..(MaxRecursionGrade - gl) :
            \E l \in LyndonKeys(n, gl) :
                \E r \in {y \in LyndonKeys(n, gr) : LyndonLess(l, y)} :
                    /\ op' = "Lyndon.recursion"
                    /\ argL' = l
                    /\ argR' = r
                    /\ stack' = <<Frame(l, r)>>
    /\ UNCHANGED <<n, names, argK, argW, argZ, out, err, memo>>

\* one step of the innermost call of Lyn._rewrite_bracket
LyndonStep ==
    /\ op = "Lyndon.recursion"
    /\ stack # <<>>
    /\ \E f \in {stack[Len(stack)]} :
       \E call \in {Lyndon_next_call(f)} :
       \E basis \in {(<<f.l, f.r>> \in Lyndon_basis_pairs)} :
       \E raised \in {IF f.pc = "entry" THEN Lyndon_entry_error(f.l, f.r, basis) ELSE "none"} :
       \E base \in {f.pc = "entry" /\ raised = "none" /\ basis} :
       LET rest == SubSeq(stack, 1, Len(stack) - 1)
           pair == <<call[1], call[2]>>
           done == base \/ (f.pc = "outer2" /\ f.ms = <<>>)
           result == IF base
                     THEN OneItem(LyndonBracket(f.l, f.r, GradeOf(f.l) + GradeOf(f.r)))
                     ELSE f.ret
       IN  IF raised # "none"
           THEN /\ op' = "Lyndon.recursion.raised"
                /\ err' = raised
                /\ UNCHANGED <<stack, memo, out>>
           ELSE IF done
           THEN /\ stack' = rest
                /\ memo' = [memo EXCEPT !.Lyndon = @ @@ (<<f.l, f.r>> :> result)]
                /\ op' = IF rest = <<>> THEN "Lyndon.recursion.returned" ELSE op
                /\ out' = IF rest = <<>> THEN Dict(result) ELSE out
                /\ UNCHANGED err
           ELSE IF f.pc = "entry"
           THEN /\ stack' = Append(rest, [f EXCEPT !.pc = "inner1"])
                /\ UNCHANGED <<memo, op, out, err>>
           ELSE IF call = NoCall
           THEN /\ stack' = Append(rest, Skip(f))
                /\ UNCHANGED <<memo, op, out, err>>
           ELSE IF pair \in DOMAIN memo.Lyndon
           THEN /\ stack' = Append(rest, Advance(f, memo.Lyndon[pair], call[3]))
                /\ UNCHANGED <<memo, op, out, err>>
           ELSE /\ stack' = Append(stack, Frame(pair[1], pair[2]))
                /\ op' = IF OnStack(pair) THEN "Lyndon.recursion.diverged" ELSE op
                /\ UNCHANGED <<memo, out, err>>
    /\ UNCHANGED <<n, names, argK, argW, argL, argR, argZ>>

\* a call of _rewrite_bracket has not returned
InProgress ==
    op \in {"Hall.recursion", "Lyndon.recursion",
            "Hall.recursion.diverged", "Lyndon.recursion.diverged"}

\* Lyn._standard_bracket(lw) on a tuple of indices of generators
StandardBracket ==
    /\ op = "idle"
    /\ \E len \in 1..MaxWordLen :
        \E lw \in [1..len -> 0..(n - 1)] :
            /\ op' = "Lyndon._standard_bracket"
            /\ argW' = lw
            /\ out' = standard_bracket(lw)
    /\ UNCHANGED <<n, names, stack, memo, argK, argL, argR, argZ, err>>

\* the caller drops the result it holds, and the basis object with it
Discard ==
    /\ op # "idle"
    /\ ~InProgress
    /\ op' = "idle"
    /\ argK' = 0
    /\ argW' = <<>>
    /\ argL' = NoKey
    /\ argR' = NoKey
    /\ argZ' = NoKey
    /\ out' = <<>>
    /\ err' = "none"
    /\ stack' = <<>>
    /\ memo' = EmptyMemo
    /\ UNCHANGED <<n, names>>

\* every operation, on an algebra of 1..MaxGens generators
Next ==
    \/ GenerateHallSet
    \/ HallGradedBasis
    \/ LyndonGradedBasis
    \/ GradedDimension
    \/ IsLyndon
    \/ HallRewrite
    \/ LyndonRewrite
    \/ HallRewriteByGenerator
    \/ LyndonRewriteByGenerator
    \/ HallJacobi
    \/ LyndonJacobi
    \/ HallRoundTrip
    \/ LyndonRoundTrip
    \/ HallBracketByName
    \/ LyndonBracketByName
    \/ HallCall
    \/ HallStep
    \/ LyndonCall
    \/ LyndonStep
    \/ StandardBracket
    \/ Discard

Spec == Init /\ [][Next]_vars

\* the basis generators and the dimension formula
NextBasis ==
    \/ GenerateHallSet
    \/ HallGradedBasis
    \/ LyndonGradedBasis
    \/ GradedDimension
    \/ Discard

SpecBasis == Init /\ [][NextBasis]_vars

\* is_lyndon, a function of the module: it needs no algebra, one is enough
InitWords == Init /\ n = 1

NextWords == IsLyndon \/ Discard

SpecWords == InitWords /\ [][NextWords]_vars

\* the rewrite of pairs of basis keys
NextRewrite == HallRewrite \/ LyndonRewrite \/ Discard

SpecRewrite == Init /\ [][NextRewrite]_vars

\* the rewrite of a basis key against a generator, to a higher grade
NextRewriteByGenerator == HallRewriteByGenerator \/ LyndonRewriteByGenerator \/ Discard

SpecRewriteByGenerator == Init /\ [][NextRewriteByGenerator]_vars

\* the Jacobi sums
NextJacobi == HallJacobi \/ LyndonJacobi \/ Discard

SpecJacobi == Init /\ [][NextJacobi]_vars

\* the conversions between the two bases
NextRoundTrip == HallRoundTrip \/ LyndonRoundTrip \/ Discard

SpecRoundTrip == Init /\ [][NextRoundTrip]_vars

\* LieAlgebra(QQ, [names]): the n generators declared in any order of names
InitNames ==
    /\ n \in 1..MaxGens
    /\ names \in Permutations(1..n)
    /\ Idle

\* brackets of generators picked by name
NextNames == HallBracketByName \/ LyndonBracketByName \/ Discard

SpecNames == InitNames /\ [][NextNames]_vars

\* the recursion of _rewrite_bracket, call by call; a call in progress goes on
NextStandardBracket == StandardBracket \/ Discard

SpecStandardBracket == Init /\ [][NextStandardBracket]_vars

NextRecursion == HallCall \/ HallStep \/ LyndonCall \/ LyndonStep \/ Discard

SpecRecursion ==
    Init /\ [][NextRecursion]_vars /\ WF_vars(HallStep) /\ WF_vars(LyndonStep)

\* ------------------------------------------------------------ properties
HallCanonicalKey(key) ==
    /\ IsBracket(key)
    /\ HallLess(Left(key), Right(key))
    /\ IsBracket(Right(key)) => HallLeq(Left(Right(key)), Left(key))

\* C1: for canonical Hall keys l < r, every key of the mapping returned by
\* the Hall _rewrite_bracket(l, r) is a member of the Hall set of grade
\* grade(l) + grade(r) and carries that grade at every node.
C1_HallRewriteStaysInHallSet ==
    (op = "Hall._rewrite_bracket" /\ HallLess(argL, argR)) =>
        LET hall_set == HallKeys(n, GradeOf(argL) + GradeOf(argR))
        IN  \A b \in DOMAIN out : b \in hall_set /\ WellGraded(b)

\* a rewrite that went through the Jacobi recursion and returned several keys
C1_Witness ==
    /\ op = "Hall._rewrite_bracket"
    /\ HallLess(argL, argR)
    /\ ~Hall_is_canonical(argL, argR)
    /\ Cardinality(DOMAIN out) >= 2

\* C2: for canonical Lyndon keys l < r, the Lyndon _rewrite_bracket(l, r)
\* returns a mapping whose every key has grade grade(l) + grade(r), has a
\* Lyndon index word and is the standard bracketing of that word, so that
\* _is_basis_element holds for its (left, right) split.
C2_LyndonRewriteStaysInLyndonBasis ==
    (op = "Lyndon._rewrite_bracket" /\ LyndonLess(argL, argR)) =>
        /\ err = "none"
        /\ \A b \in DOMAIN out :
            /\ IsBracket(b)
            /\ GradeOf(b) = GradeOf(argL) + GradeOf(argR)
            /\ WellGraded(b)
            /\ IsLyndonByRotation(IndexWord(b))
            /\ b = standard_bracket(IndexWord(b))
            /\ is_basis_element(Left(b), Right(b))

\* a Lyndon rewrite that went through the Jacobi recursion
C2_Witness ==
    /\ op = "Lyndon._rewrite_bracket"
    /\ LyndonLess(argL, argR)
    /\ ~is_basis_element(argL, argR)
    /\ err = "none"
    /\ Cardinality(DOMAIN out) >= 2

\* C3: for every n >= 1 and k >= 1 the tuple returned by _generate_hall_set(k),
\* and the one returned by the Hall graded_basis(k), has graded_dimension(k)
\* elements; for n = 3 and k = 1..10 these are 3, 3, 8, 18, 48, 116, 312, 810,
\* 2184, 5880.
C3_HallSetHasWittDimension ==
    ((op = "generate_hall_set" \/ op = "Hall.graded_basis") /\ argK >= 1) =>
        /\ Len(out) = graded_dimension(n, argK)
        /\ (n = 3 /\ argK <= 10) =>
               Len(out) = <<3, 3, 8, 18, 48, 116, 312, 810, 2184, 5880>>[argK]

\* the Hall set of an even grade above 4, where the midpoint branch ran
C3_Witness ==
    /\ op = "generate_hall_set"
    /\ n = 3
    /\ argK = 6
    /\ Len(out) = 116

\* C4: for every n >= 1 and k >= 1 the Lyndon graded_basis(k) holds exactly
\* one key per Lyndon word of length k over the n letters, the keys are
\* pairwise distinct, and there are graded_dimension(k) of them.
C4_LyndonBasisOneKeyPerLyndonWord ==
    (op = "Lyndon.graded_basis" /\ argK >= 1) =>
        /\ \A i, j \in 1..Len(out) : i # j => KeyOf(out[i]) # KeyOf(out[j])
        /\ {IndexWord(KeyOf(out[j])) : j \in 1..Len(out)}
             = {w \in [1..argK -> 0..(n - 1)] : IsLyndonByRotation(w)}
        /\ Len(out) = graded_dimension(n, argK)

C4_Witness ==
    /\ op = "Lyndon.graded_basis"
    /\ n = 3
    /\ argK = 4
    /\ Len(out) = 18

\* C5: every key [left, right] of _generate_hall_set(k), k >= 2, has
\* left < right and, when right is a bracket, right.left <= left, and left
\* and right are members of the Hall sets of their grades.
C5_HallSetKeysCanonical ==
    (op = "generate_hall_set" /\ argK >= 2) =>
        LET lower == UNION {{<<g, x>> : x \in HallKeys(n, g)} : g \in 1..(argK - 1)}
        IN  \A j \in 1..Len(out) :
                /\ HallCanonicalKey(out[j])
                /\ GradeOf(out[j]) = argK
                /\ GradeOf(Left(out[j])) + GradeOf(Right(out[j])) = argK
                /\ <<GradeOf(Left(out[j])), Left(out[j])>> \in lower
                /\ <<GradeOf(Right(out[j])), Right(out[j])>> \in lower

\* the Hall set of grade 4 holding a midpoint pair of two grade-2 brackets
C5_Witness ==
    /\ op = "generate_hall_set"
    /\ argK = 4
    /\ \E j \in 1..Len(out) :
        GradeOf(Left(out[j])) = 2 /\ GradeOf(Right(out[j])) = 2

\* C6: every key of grade k >= 2 of the Lyndon graded_basis(k) satisfies
\* _is_basis_element(key.left, key.right): its index word is a Lyndon word
\* whose standard bracketing splits into exactly (key.left, key.right).
C6_LyndonBasisKeysCanonical ==
    (op = "Lyndon.graded_basis" /\ argK >= 2) =>
        \A j \in 1..Len(out) :
            LET key == KeyOf(out[j])
            IN  /\ IsBracket(key)
                /\ is_basis_element(Left(key), Right(key))
                /\ IsLyndonByRotation(IndexWord(Left(key)) \o IndexWord(Right(key)))

C6_Witness ==
    /\ op = "Lyndon.graded_basis"
    /\ argK >= 4
    /\ \E j \in 1..Len(out) :
        IsBracket(Left(KeyOf(out[j]))) /\ IsBracket(Right(KeyOf(out[j])))

\* C7: is_lyndon(w) is true iff the nonempty word w is strictly smaller than
\* each of its proper rotations; is_lyndon([1]) and is_lyndon([2,2,3]) are
\* true, is_lyndon([1,3,1]) is false.
C7_IsLyndonAgreesWithRotations ==
    op = "is_lyndon" =>
        /\ out = IsLyndonByRotation(argW)
        /\ argW = <<1>> => out = TRUE
        /\ argW = <<1, 3, 1>> => out = FALSE
        /\ argW = <<2, 2, 3>> => out = TRUE

\* a periodic word, on which the scan ends with i # 0
C7_Witness ==
    /\ op = "is_lyndon"
    /\ argW = <<1, 2, 1, 2>>
    /\ out = FALSE

\* C8: the mapping returned by rewrite(l, r), Hall or Lyndon, retains no key
\* whose coefficient is zero.
C8_NoZeroCoefficientRetained ==
    (op = "Hall._rewrite_bracket" \/ op = "Lyndon._rewrite_bracket") =>
        \A b \in DOMAIN out : out[b] # 0

\* C9: rewrite called with l >= r, Hall or Lyndon, fails with an ordering
\* error and returns no combination.
C9_UnorderedOperandsFail ==
    /\ (op = "Hall._rewrite_bracket" /\ ~HallLess(argL, argR)) =>
            (err # "none" /\ out = EmptyDict)
    /\ (op = "Lyndon._rewrite_bracket" /\ ~LyndonLess(argL, argR)) =>
            (err # "none" /\ out = EmptyDict)

\* C10: Jacobi identity: for basis keys x, y, z of one flavor, the sum of the
\* rewritten combinations of [[x,y],z], [[y,z],x] and [[z,x],y] has every
\* coefficient equal to zero.
C10_JacobiIdentity ==
    (op = "Hall.jacobi" \/ op = "Lyndon.jacobi") =>
        \A b \in DOMAIN out : out[b] = 0

\* three distinct keys whose three double brackets cancel on at least two keys
C10_Witness ==
    /\ op = "Hall.jacobi"
    /\ argL # argR /\ argR # argZ /\ argL # argZ
    /\ Cardinality(DOMAIN out) >= 2

\* C11: round trip across bases: every Hall basis element of grade k, turned
\* into a combination of Lyndon keys and back, is the element itself, and
\* every Lyndon basis element, turned into Hall keys and back, likewise.
C11_RoundTripAcrossBases ==
    (op = "Hall.round_trip" \/ op = "Lyndon.round_trip") =>
        out[2] = Monomial(argL)

\* a Hall element of grade 5 that is a combination of several Lyndon keys
C11_Witness ==
    /\ op = "Hall.round_trip"
    /\ argK = 5
    /\ Cardinality(DOMAIN out[1]) >= 3
    /\ out[2] = Monomial(argL)

\* C12: the tuple returned by _generate_hall_set(k) is strictly increasing
\* under the order of Hall keys (sorted, no key twice), for k = 2, which is
\* not sorted, as well; k = 1 lists the n generators by rank; k <= 0 gives ().
C12_HallSetStrictlyIncreasing ==
    op = "generate_hall_set" =>
        /\ \A j \in 1..(Len(out) - 1) : HallLess(out[j], out[j + 1])
        /\ argK <= 0 => out = <<>>
        /\ argK = 1 => out = [i \in 1..n |-> LieGenerator(i - 1)]

\* an even grade above 4: keys from the grade-pair loop and from the midpoint
\* branch, in one increasing tuple
C12_Witness ==
    /\ op = "generate_hall_set"
    /\ n = 3
    /\ argK = 6
    /\ \E i, j \in 1..Len(out) :
        /\ GradeOf(Left(out[i])) = 3 /\ GradeOf(Right(out[i])) = 3
        /\ GradeOf(Left(out[j])) = 1 /\ GradeOf(Right(out[j])) = 5
    /\ \A j \in 1..(Len(out) - 1) : HallLess(out[j], out[j + 1])

\* C13: graded_dimension(k) for k < 0 fails with a domain error and returns
\* no number; graded_dimension(0) returns 0 without error.
C13_NegativeGradeIsDomainError ==
    op = "graded_dimension" =>
        /\ argK < 0 => err # "none"
        /\ argK = 0 => (out = 0 /\ err = "none")

\* C14: generators are ordered by their position in the list of declaration,
\* never by name: for generators a at position i and b at position j the
\* bracket a.bracket(b) is +[a, b] when i < j, -[b, a] when i > j and zero
\* when i = j, in both bases, whatever the names; with the generators
\* declared as (z, x, y), z.bracket(x) = [z, x] and y.bracket(z) = -[z, y].
C14_OrderByRankNotName ==
    (op = "Hall.bracket" \/ op = "Lyndon.bracket") =>
        /\ \A i, j \in 1..n :
            (names[i] = argW[1] /\ names[j] = argW[2]) =>
                /\ i < j => out = (<<LieGenerator(i - 1), LieGenerator(j - 1), 2>> :> 1)
                /\ i > j => out = (<<LieGenerator(j - 1), LieGenerator(i - 1), 2>> :> -1)
                /\ i = j => out = EmptyDict
        /\ \A b \in DOMAIN out :
            /\ out[b] = 1 => Named(b, names) = argW
            /\ out[b] = -1 => Named(b, names) = <<argW[2], argW[1]>>
        /\ (names = <<3, 1, 2>> /\ argW = <<3, 1>>) => out = (<<<<0>>, <<1>>, 2>> :> 1)
        /\ (names = <<3, 1, 2>> /\ argW = <<2, 3>>) => out = (<<<<0>>, <<2>>, 2>> :> -1)

\* the generators declared as (z, x, y), and y.bracket(z) = -[z, y]
C14_Witness ==
    /\ op = "Lyndon.bracket"
    /\ names = <<3, 1, 2>>
    /\ argW = <<2, 3>>
    /\ \E b \in DOMAIN out : out[b] = -1 /\ Named(b, names) = <<3, 2>>

\* C15: termination: every call of _rewrite_bracket(l, r) on canonical keys
\* l < r, Hall or Lyndon, returns: no call is made on a pair that is still in
\* progress, the outer calls on re-sorted pairs of the same total grade
\* included.
C15_RewriteTerminates ==
    (op = "Hall.recursion" \/ op = "Lyndon.recursion")
        ~> (op = "Hall.recursion.returned" \/ op = "Lyndon.recursion.returned")

\* a call that returned after an outer call on another pair of its own grade
C15_Witness ==
    /\ op = "Hall.recursion.returned"
    /\ \E p \in DOMAIN memo.Hall :
        /\ p # <<argL, argR>>
        /\ GradeOf(p[1]) + GradeOf(p[2]) = GradeOf(argL) + GradeOf(argR)
    /\ <<argL, argR>> \in DOMAIN memo.Hall

\* C16: precondition preservation: from a top-level call on canonical keys
\* l < r, every call of _rewrite_bracket in progress and every pair in the
\* cache has its first operand strictly smaller than its second, and the
\* Lyndon assertion never fails.
C16_NestedCallsKeepOrder ==
    /\ (op = "Hall.recursion" \/ op = "Hall.recursion.returned") =>
        /\ \A i \in 1..Len(stack) : HallLess(stack[i].l, stack[i].r)
        /\ \A p \in DOMAIN memo.Hall : HallLess(p[1], p[2])
    /\ (op = "Lyndon.recursion" \/ op = "Lyndon.recursion.returned") =>
        /\ \A i \in 1..Len(stack) : LyndonLess(stack[i].l, stack[i].r)
        /\ \A p \in DOMAIN memo.Lyndon : LyndonLess(p[1], p[2])
        /\ err = "none"
    /\ op # "Lyndon.recursion.raised"

\* a Lyndon call three deep, the innermost on a pair that was re-sorted
C16_Witness ==
    /\ op = "Lyndon.recursion"
    /\ Len(stack) >= 3
    /\ stack[Len(stack) - 1].pc \in {"outer1", "outer2"}
    /\ stack[Len(stack) - 1].ms # <<>>
    /\ LET f == stack[Len(stack) - 1] IN Lyndon_next_call(f)[3] = -1

\* C17: in the Lyndon rewrite, whenever l < r are canonical Lyndon keys and
\* _is_basis_element(l, r) is false, l is a bracket [a, b] with a < b, so
\* that reading l._left and l._right raises nothing; and for a generator l
\* and a canonical Lyndon key r with l < r, [l, r] is a canonical Lyndon key,
\* returned as it is.
C17_NonBasisLeftIsBracket ==
    (op = "Lyndon._rewrite_bracket" /\ LyndonLess(argL, argR)) =>
        /\ ~is_basis_element(argL, argR) =>
            /\ IsBracket(argL)
            /\ LyndonLess(Left(argL), Right(argL))
            /\ err = "none"
        /\ ~IsBracket(argL) =>
            /\ is_basis_element(argL, argR)
            /\ LET b == LyndonBracket(argL, argR, 1 + GradeOf(argR))
               IN  /\ b = standard_bracket(IndexWord(b))
                   /\ b \in LyndonKeys(n, GradeOf(b))
                   /\ out = (b :> 1)

\* a Lyndon rewrite of two brackets that is not a basis element and went
\* through l._left and l._right
C17_Witness ==
    /\ op = "Lyndon._rewrite_bracket"
    /\ LyndonLess(argL, argR)
    /\ ~is_basis_element(argL, argR)
    /\ IsBracket(argL)
    /\ IsBracket(argR)
    /\ GradeOf(argL) >= 3
    /\ out # EmptyDict

\* every node of x is a generator or a bracket whose left and right sub-keys
\* have Lyndon index words and whose grade is the length of its index word
RECURSIVE StandardKey(_)
StandardKey(x) ==
    IF Len(x) = 1 THEN TRUE
    ELSE IF Len(x) = 3
    THEN /\ IsLyndonByRotation(IndexWord(x[1]))
         /\ IsLyndonByRotation(IndexWord(x[2]))
         /\ x[3] = Len(IndexWord(x))
         /\ StandardKey(x[1])
         /\ StandardKey(x[2])
    ELSE FALSE

\* C18: for every Lyndon word w of length >= 1, _standard_bracket(w) returns
\* a key (the scan over the split points never ends without a result), the
\* index word of that key is w, and at every bracket node of it the left and
\* the right sub-key have a Lyndon index word.
C18_StandardBracketOfLyndonWord ==
    (op = "Lyndon._standard_bracket" /\ IsLyndonByRotation(argW)) =>
        /\ out # None
        /\ IndexWord(out) = argW
        /\ StandardKey(out)

\* the standard bracketing of a Lyndon word whose prefix and suffix are both
\* brackets
C18_Witness ==
    /\ op = "Lyndon._standard_bracket"
    /\ IsLyndonByRotation(argW)
    /\ Len(argW) >= 4
    /\ IsBracket(out)
    /\ IsBracket(Left(out))
    /\ IsBracket(Right(out))

====
